---- MODULE Spec2Model ----
(***************************************************************************)
(* Model of the Polly-API client functions:                                *)
(*   src/fetch_polls.py       fetch_polls, fetch_polls_with_error_handling,*)
(*                            fetch_all_polls                              *)
(*   src/register_user.py     register_user, ..._with_error_handling       *)
(*   src/vote_and_results.py  cast_vote, get_poll_results, their           *)
(*                            ..._with_error_handling variants,            *)
(*                            print_poll_results, get_vote_token           *)
(* The program keeps no state between calls: the state of the model is the *)
(* frame of the call in progress (or of the last call made).               *)
(***************************************************************************)
EXTENDS Integers, Sequences, FiniteSets, TLC

\* ---------------------------------------------------------------- bounds
\* largest batch_size tried
MaxBatch == 3
\* largest dataset a well-behaved server holds
MaxPolls == 4
\* most requests of one fetch_all_polls call that an arbitrary server answers
\* with a page that lets the loop go on; more than a well-behaved server of
\* at most MaxPolls polls does.  The loop itself has no bound (while True,
\* line 107): it makes one more request after each of these pages.
MaxFullPages == MaxPolls + 1
\* longest results list given to print_poll_results
MaxOptions == 3
\* largest vote_count of an option
MaxVotes == 2

PollIds == 1..2

\* the default of fetch_all_polls' batch_size
DefaultBatch == 10

\* the page sizes tried
BatchSizes == (1..MaxBatch) \cup {DefaultBatch}

\* ---------------------------------------------------------------- JSON values
NoDetail == "<no detail>"

Details == {NoDetail, "Username already registered", "Token expired"}

NoToken == "<no access_token>"

Tokens == {NoToken, "jwt"}

\* A response body: json is its shape once decoded ("invalid": not JSON at all).
\*   "dict"          an object, with or without the keys detail and access_token
\*   "list"          an array, items are its elements: poll ids, and
\*                   DetailString for an element that is the JSON string "detail"
\*   "string"        a JSON string that does not contain the text detail
\*   "string_detail" a JSON string that contains the text detail
\*   "number"        a JSON number
\*   "null"          the JSON null, which response.json() decodes to Python's None
\*   "str"           a Python str taken out of a dict (the access token)
DetailString == 0

JsonValue(shape, detail, items, token) ==
    [json |-> shape, detail |-> detail, items |-> items, access_token |-> token]

None == JsonValue("null", NoDetail, <<>>, NoToken)

\* a page of polls
ListBody(items) == JsonValue("list", NoDetail, items, NoToken)

DictBody(detail, token) == JsonValue("dict", detail, <<>>, token)

\* bodies that are not a list
OtherBodies ==
    {JsonValue(shape, NoDetail, <<>>, NoToken) :
        shape \in {"invalid", "null", "number", "string", "string_detail"}}
    \cup {DictBody(d, t) : d \in Details, t \in Tokens}

\* the bodies a single wrapper call may get
Bodies == OtherBodies \cup {ListBody(<<>>), ListBody(<<1, 2>>), ListBody(<<DetailString>>)}

\* status codes of a response: success, the specific failure codes, other
\* client and server errors, and codes that are neither 200 nor an error
StatusCodes == {200, 204, 302, 400, 401, 404, 500}

\* kind "neterr": requests.get/post raised (timeout, connection refused, DNS)
NetErr == [kind |-> "neterr", status |-> 0, body |-> None]

HttpResponse(status, body) == [kind |-> "http", status |-> status, body |-> body]

\* ---------------------------------------------------------------- outcomes
\* the outcome of a call: a returned value or a raised exception
Return(v) == [type |-> "return", exc |-> "", msg |-> "", value |-> v]

Raise(exc, msg) == [type |-> "raise", exc |-> exc, msg |-> msg, value |-> None]

NoOutcome == [type |-> "none", exc |-> "", msg |-> "", value |-> None]

\* the beginning of the HTTPError's text, "<status> Client Error: <reason> for
\* url: <url>" for 400..499 and "<status> Server Error: ..." for 500..599
StatusText(status) ==
    IF 400 <= status /\ status < 500 THEN ToString(status) \o " Client Error"
    ELSE IF 500 <= status /\ status < 600 THEN ToString(status) \o " Server Error"
    ELSE "no error"

\* Response.raise_for_status(): raises HTTPError (a RequestException) for
\* 400 <= status < 600 and does nothing for any other status
raise_for_status(status) ==
    IF 400 <= status /\ status < 600
    THEN Raise("HTTPError", StatusText(status))
    ELSE NoOutcome

\* the handler "except RequestException as e: raise RequestException(f'Request failed: {e}')"
\* catches HTTPError, ConnectionError and the JSONDecodeError of response.json(),
\* all RequestExceptions (requests >= 2.27); a ValueError or TypeError passes
\* through it
IsRequestException(exc) ==
    exc \in {"RequestException", "HTTPError", "ConnectionError", "JSONDecodeError"}

\* the end of the try statement: a RequestException is raised again as
\* "Request failed: ...", and when raise_for_status() raised nothing the
\* function falls off its end and returns None
rewrap(out) ==
    IF out.type = "raise" /\ IsRequestException(out.exc)
    THEN Raise("RequestException", "Request failed: " \o out.msg)
    ELSE IF out.type = "none" THEN Return(None)
    ELSE out

\* response.json(): the decoded body, or JSONDecodeError on an undecodable one
response_json(body) ==
    IF body.json = "invalid"
    THEN Raise("JSONDecodeError", "Expecting value")
    ELSE Return(body)

ConnectionFailure == Raise("ConnectionError", "connection failed")

\* ---------------------------------------------------------------- fetch_polls
fetch_polls_body(resp) ==
    IF resp.kind = "neterr" THEN ConnectionFailure
    ELSE IF resp.status = 200
         THEN LET polls_data == response_json(resp.body) IN
              IF polls_data.type = "raise" THEN polls_data
              ELSE IF polls_data.value.json # "list"
                   THEN Raise("ValueError",
                              "Expected a list of polls, but received a different data type")
                   ELSE polls_data
         ELSE raise_for_status(resp.status)

fetch_polls(resp) == rewrap(fetch_polls_body(resp))

\* fetch_polls_with_error_handling and its three siblings share one handler:
\* "except (RequestException, ValueError): print(...); return None"
with_error_handling(out) ==
    IF out.type = "raise" /\ (IsRequestException(out.exc) \/ out.exc = "ValueError")
    THEN Return(None)
    ELSE out

fetch_polls_with_error_handling(resp) == with_error_handling(fetch_polls(resp))

\* ---------------------------------------------------------------- register_user
\* lines 69-75: the message of the ValueError raised on status 400
registration_error(body) ==
    LET error_data == response_json(body) IN
    IF error_data.type = "raise"
    THEN Raise("ValueError", "Registration failed: Username already registered")
    ELSE CASE body.json = "dict" ->
                 IF body.detail # NoDetail
                 THEN Raise("ValueError", "Registration failed: " \o body.detail)
                 ELSE Raise("ValueError", "Registration failed: Username already registered")
           [] body.json = "list" ->
                 \* "detail" in error_data looks for an equal element
                 IF \E i \in 1..Len(body.items) : body.items[i] = DetailString
                 THEN Raise("TypeError", "list indices must be integers or slices, not str")
                 ELSE Raise("ValueError", "Registration failed: Username already registered")
           [] body.json = "string" ->
                 Raise("ValueError", "Registration failed: Username already registered")
           [] body.json = "string_detail" ->
                 Raise("TypeError", "string indices must be integers")
           [] OTHER ->
                 Raise("TypeError", "argument is not iterable")

register_user_body(resp) ==
    IF resp.kind = "neterr" THEN ConnectionFailure
    ELSE IF resp.status = 200 THEN response_json(resp.body)
    ELSE IF resp.status = 400 THEN registration_error(resp.body)
    ELSE raise_for_status(resp.status)

register_user(resp) == rewrap(register_user_body(resp))

register_user_with_error_handling(resp) == with_error_handling(register_user(resp))

\* ---------------------------------------------------------------- cast_vote
cast_vote_body(resp) ==
    IF resp.kind = "neterr" THEN ConnectionFailure
    ELSE IF resp.status = 200 THEN response_json(resp.body)
    ELSE IF resp.status = 401
         THEN Raise("ValueError", "Unauthorized: Invalid or missing JWT token")
    ELSE IF resp.status = 404 THEN Raise("ValueError", "Poll or option not found")
    ELSE raise_for_status(resp.status)

cast_vote(resp) == rewrap(cast_vote_body(resp))

cast_vote_with_error_handling(resp) == with_error_handling(cast_vote(resp))

\* ---------------------------------------------------------------- get_poll_results
get_poll_results_body(resp) ==
    IF resp.kind = "neterr" THEN ConnectionFailure
    ELSE IF resp.status = 200 THEN response_json(resp.body)
    ELSE IF resp.status = 404 THEN Raise("ValueError", "Poll not found")
    ELSE raise_for_status(resp.status)

get_poll_results(resp) == rewrap(get_poll_results_body(resp))

get_poll_results_with_error_handling(resp) == with_error_handling(get_poll_results(resp))

\* ---------------------------------------------------------------- get_vote_token
\* every exception is caught ("except Exception") and every status other
\* than 200 prints "Login failed": the function returns, it never raises
get_vote_token(resp) ==
    IF resp.kind = "neterr" THEN Return(None)
    ELSE IF resp.status = 200
         THEN IF resp.body.json = "dict" /\ resp.body.access_token # NoToken
              THEN Return(JsonValue("str", NoDetail, <<>>, resp.body.access_token))
              ELSE Return(None)
         ELSE Return(None)

\* ---------------------------------------------------------------- print_poll_results
\* vote_count of an option whose key vote_count is missing
Absent == -1

\* an element of results['results']
Option(id, count) == [option_id |-> id, vote_count |-> count]

\* x.get('vote_count', 0)
vote_count_of(option) ==
    IF option.vote_count = Absent THEN 0 ELSE option.vote_count

RECURSIVE Reverse(_)
Reverse(s) == IF s = <<>> THEN <<>> ELSE Append(Reverse(Tail(s)), Head(s))

\* one insertion of a stable ascending sort: x goes after every element
\* whose key is not greater than its own
RECURSIVE InsertAscending(_, _)
InsertAscending(x, s) ==
    IF s = <<>> THEN <<x>>
    ELSE IF vote_count_of(Head(s)) <= vote_count_of(x)
         THEN <<Head(s)>> \o InsertAscending(x, Tail(s))
         ELSE <<x>> \o s

RECURSIVE SortAscending(_)
SortAscending(s) ==
    IF s = <<>> THEN <<>>
    ELSE InsertAscending(s[Len(s)], SortAscending(SubSeq(s, 1, Len(s) - 1)))

\* an ascending sort reversed afterwards, which turns ties around
sorted_results_unstable(results_data) == Reverse(SortAscending(results_data))

\* sorted(results_data, key=..., reverse=True): list.sort reverses the list,
\* sorts it ascending with a stable sort and reverses it again
sorted_results_of(results_data) == Reverse(SortAscending(Reverse(results_data)))

\* the options counted instead of their votes
total_votes_counting_options(results_data) == Len(results_data)

\* sum(option.get('vote_count', 0) for option in results_data)
RECURSIVE total_votes_of(_)
total_votes_of(results_data) ==
    IF results_data = <<>> THEN 0
    ELSE vote_count_of(Head(results_data)) + total_votes_of(Tail(results_data))

\* n / d rounded to the nearest integer, a tie going to the even one
RoundHalfEven(n, d) ==
    LET q == n \div d
        r == n % d
    IN  IF 2 * r < d THEN q
        ELSE IF 2 * r > d THEN q + 1
        ELSE IF q % 2 = 0 THEN q ELSE q + 1

\* (v * 2^k) % m, eight binary places at a time
RECURSIVE ShiftMod(_, _, _)
ShiftMod(v, k, m) ==
    IF k = 0 THEN v % m
    ELSE IF k >= 8 THEN (256 * ShiftMod(v, k - 8, m)) % m
    ELSE (2 * ShiftMod(v, k - 1, m)) % m

\* the least e with v * 2^e >= t, from e on
RECURSIVE BinaryExponent(_, _, _)
BinaryExponent(v, t, e) == IF v * (2 ^ e) >= t THEN e ELSE BinaryExponent(v, t, e + 1)

\* The error of the double "v / t * 100" against the exact 100 * v / t, for
\* 0 < v <= t: the double is 100 * v / t + num / (t * 2^(52 + exp)).  v / t is
\* rounded to 53 bits (quotient floor(v * 2^k / t), k = 52 + e, remainder r,
\* error d1 / (t * 2^k)), its product with 100 is rounded to 53 bits again
\* (s bits dropped, error d2 / 2^k); only the last 8 bits of the quotient are
\* needed for that.
FloatError(v, t) ==
    LET e == BinaryExponent(v, t, 0)
        k == 52 + e
        w == ShiftMod(v, k, 256 * t)
        r == w % t
        m == w \div t
        up == IF 2 * r > t \/ (2 * r = t /\ m % 2 = 1) THEN 1 ELSE 0
        d1 == IF up = 1 THEN t - r ELSE -r
        c == 100 * v * (2 ^ e) - 128 * t
        s == IF c > 0 \/ (c = 0 /\ d1 >= 0) THEN 7 ELSE 6
        x == 100 * ((m + up) % 256)
        low == x % (2 ^ s)
        half == 2 ^ (s - 1)
        d2 == IF low < half THEN -low
              ELSE IF low > half THEN (2 ^ s) - low
              ELSE IF ((x - low) \div (2 ^ s)) % 2 = 0 THEN -low ELSE (2 ^ s) - low
    IN  [num |-> 100 * d1 + d2 * t, exp |-> e]

\* percentage = (vote_count / total_votes * 100) if total_votes > 0 else 0,
\* as its distance from the exact 100 * vote_count / total_votes (0 when
\* total_votes is 0): 0 / total_votes is 0.0 and 0.0 * 100 is 0.0, exactly
percentage_error(vote_count, total_votes) ==
    IF total_votes > 0 /\ vote_count > 0 THEN FloatError(vote_count, total_votes)
    ELSE [num |-> 0, exp |-> 0]

FloatErrorSign(v, t) ==
    LET z == FloatError(v, t).num IN
    IF z > 0 THEN 1 ELSE IF z < 0 THEN -1 ELSE 0

\* f"{percentage:.1f}": the double rounded to one decimal, as an integer
\* in tenths of a percent.  The double is far closer to the exact percentage
\* than that one is to the middle of two tenths, unless it is exactly such a
\* middle (x.x5): there the side the double falls on decides, and the even
\* tenth when the double is exact.
percentage_tenths(vote_count, total_votes) ==
    IF total_votes <= 0 THEN 0
    ELSE LET n == (vote_count * 1000) \div total_votes
             r == (vote_count * 1000) % total_votes
         IN  IF 2 * r # total_votes \/ vote_count >= total_votes
             THEN RoundHalfEven(vote_count * 1000, total_votes)
             ELSE LET sign == FloatErrorSign(vote_count, total_votes) IN
                  IF sign > 0 THEN n + 1
                  ELSE IF sign < 0 THEN n
                  ELSE IF n % 2 = 0 THEN n ELSE n + 1

\* the block printed for one option: its rank, its count and its percentage
\* (the double computed, as its error, and the one decimal printed)
report_line(i, option, total_votes) ==
    [rank |-> i,
     option_id |-> option.option_id,
     vote_count |-> vote_count_of(option),
     error |-> percentage_error(vote_count_of(option), total_votes),
     tenths |-> percentage_tenths(vote_count_of(option), total_votes)]

\* for i, option in enumerate(sorted_results, 1): the blocks of the first
\* n options, in order
RECURSIVE first_lines(_, _, _)
first_lines(sorted_results, total_votes, n) ==
    IF n = 0 THEN <<>>
    ELSE Append(first_lines(sorted_results, total_votes, n - 1),
                report_line(n, sorted_results[n], total_votes))

report_lines(sorted_results, total_votes) ==
    first_lines(sorted_results, total_votes, Len(sorted_results))

NoReport ==
    [status |-> "none", results_data |-> <<>>, sorted_results |-> <<>>,
     total_votes |-> 0, lines |-> <<>>]

\* results is None or an empty dict when has_results is FALSE
print_poll_results(has_results, results_data) ==
    IF ~has_results THEN [NoReport EXCEPT !.status = "no_results"]
    ELSE IF results_data = <<>> THEN [NoReport EXCEPT !.status = "no_votes"]
    ELSE LET sorted_results == sorted_results_of(results_data)
             total_votes == total_votes_of(results_data)
         IN  [status |-> "printed",
              results_data |-> results_data,
              sorted_results |-> sorted_results,
              total_votes |-> total_votes,
              lines |-> report_lines(sorted_results, total_votes)]

\* ---------------------------------------------------------------- servers
Min(a, b) == IF a < b THEN a ELSE b

\* a well-behaved server: GET /polls?skip=&limit= answers 200 with the items
\* at positions skip .. min(skip + limit, M) - 1 of its dataset
serve(polls, skip_, limit) ==
    HttpResponse(200, ListBody(SubSeq(polls, skip_ + 1, Min(skip_ + limit, Len(polls)))))

\* a page of n polls made up by a server that is not bound to a dataset:
\* the polls skip + 1 .. skip + n
RECURSIVE Page(_, _)
Page(skip_, n) == IF n = 0 THEN <<>> ELSE Append(Page(skip_, n - 1), skip_ + n)

\* what a single wrapper call may get back
Responses == {NetErr} \cup {HttpResponse(s, b) : s \in StatusCodes, b \in Bodies}

\* what an arbitrary collaborator may answer to GET /polls?skip=&limit=:
\* any failure, any body, and pages that are empty or short, and, as long as
\* it has more to give, pages that are full or too long
AnyResponses(skip_, limit, more) ==
    {NetErr}
    \cup {HttpResponse(s, b) : s \in StatusCodes, b \in OtherBodies}
    \cup {HttpResponse(200, ListBody(Page(skip_, n))) :
              n \in 0..(IF more THEN limit + 1 ELSE limit - 1)}

\* ---------------------------------------------------------------- state
VARIABLES
    pc,          \* fetch_all_polls: "idle", "loop" (inside while True) or "done" (returned)
    server,      \* the collaborator of the call: "paged" (well-behaved) or "any"
    dataset,     \* the polls of the well-behaved server
    batch_size,  \* argument of fetch_all_polls
    all_polls,   \* local of fetch_all_polls, its result once pc = "done"
    skip,        \* local of fetch_all_polls
    requests,    \* the skip of every fetch_polls call made so far, in order
    pages,       \* the lists fetch_polls returned so far, in order
    last,        \* outcome of the latest fetch_polls call of the loop
    call,        \* the latest call of a single-request function
    report       \* what the latest print_poll_results call computed

vars == <<pc, server, dataset, batch_size, all_polls, skip, requests, pages, last,
          call, report>>

NoCall == [fn |-> "none", resp |-> NetErr, out |-> NoOutcome]

\* the frame of fetch_all_polls when no such call was made
NoLoop ==
    /\ pc' = "idle"
    /\ server' = "paged"
    /\ dataset' = <<>>
    /\ batch_size' = 1
    /\ all_polls' = <<>>
    /\ skip' = 0
    /\ requests' = <<>>
    /\ pages' = <<>>
    /\ last' = NoOutcome

Init ==
    /\ pc = "idle"
    /\ server = "paged"
    /\ dataset = <<>>
    /\ batch_size = 1
    /\ all_polls = <<>>
    /\ skip = 0
    /\ requests = <<>>
    /\ pages = <<>>
    /\ last = NoOutcome
    /\ call = NoCall
    /\ report = NoReport

\* ---------------------------------------------------------------- fetch_all_polls
\* the batch put in front of the accumulated polls instead of behind them
extend_prepending(acc, polls_batch) == polls_batch \o acc

\* all_polls.extend(polls_batch)
extend(acc, polls_batch) == acc \o polls_batch

\* a full page taken for the last one ("<=" for "<")
ends_loop_on_full_page(polls_batch, size) ==
    Len(polls_batch) = 0 \/ Len(polls_batch) <= size

\* the two break conditions of the loop body: "not polls_batch" and
\* "len(polls_batch) < batch_size"
ends_loop(polls_batch, size) ==
    Len(polls_batch) = 0 \/ Len(polls_batch) < size

\* the next item instead of the next page
advance_by_one(skip_, size) == skip_ + 1

\* skip += batch_size
advance(skip_, size) == skip_ + size

\* all-or-nothing: the accumulated polls dropped on a failure
partial_result_discarded(acc) == <<>>

\* "except Exception: print(...); break" followed by "return all_polls"
partial_result(acc) == acc

\* the datasets of exactly m polls
RECURSIVE DatasetsOfSize(_)
DatasetsOfSize(m) ==
    IF m = 0 THEN {<<>>}
    ELSE {Append(polls, id) : polls \in DatasetsOfSize(m - 1), id \in PollIds}

Datasets == UNION {DatasetsOfSize(m) : m \in 0..MaxPolls}

\* fetch_all_polls(base_url, batch_size) is called: lines 104-105
StartFetchAll ==
    /\ pc # "loop"
    /\ \E size \in BatchSizes, srv \in {"paged", "any"}, polls \in Datasets :
          /\ srv = "any" => polls = <<>>
          /\ batch_size' = size
          /\ server' = srv
          /\ dataset' = polls
    /\ pc' = "loop"
    /\ all_polls' = <<>>
    /\ skip' = 0
    /\ requests' = <<>>
    /\ pages' = <<>>
    /\ last' = NoOutcome
    /\ call' = NoCall
    /\ report' = NoReport

\* one iteration of "while True": lines 107-125 (and 127 when it leaves the loop)
FetchStep ==
    /\ pc = "loop"
    /\ \E resp \in (IF server = "paged"
                     THEN {serve(dataset, skip, batch_size)}
                     ELSE AnyResponses(skip, batch_size, Len(requests) < MaxFullPages)) :
          LET polls_batch == fetch_polls(resp) IN
          /\ requests' = Append(requests, skip)
          /\ last' = polls_batch
          /\ IF polls_batch.type = "raise"
             THEN /\ all_polls' = partial_result(all_polls)
                  /\ pages' = pages
                  /\ skip' = skip
                  /\ pc' = "done"
             ELSE IF polls_batch.value.json # "list"
             THEN \* fetch_polls returned None, "not polls_batch" holds
                  /\ all_polls' = all_polls
                  /\ pages' = pages
                  /\ skip' = skip
                  /\ pc' = "done"
             ELSE LET items == polls_batch.value.items IN
                  /\ pages' = Append(pages, items)
                  /\ all_polls' = IF Len(items) = 0 THEN all_polls
                                  ELSE extend(all_polls, items)
                  /\ IF ends_loop(items, batch_size)
                     THEN skip' = skip /\ pc' = "done"
                     ELSE skip' = advance(skip, batch_size) /\ pc' = "loop"
    /\ UNCHANGED <<server, dataset, batch_size, call, report>>

\* ---------------------------------------------------------------- single calls
Called(fn, resp, out) ==
    /\ pc # "loop"
    /\ call' = [fn |-> fn, resp |-> resp, out |-> out]
    /\ report' = NoReport
    /\ NoLoop

FetchPolls == \E resp \in Responses : Called("fetch_polls", resp, fetch_polls(resp))

FetchPollsWithErrorHandling ==
    \E resp \in Responses :
        Called("fetch_polls_with_error_handling", resp, fetch_polls_with_error_handling(resp))

RegisterUser == \E resp \in Responses : Called("register_user", resp, register_user(resp))

RegisterUserWithErrorHandling ==
    \E resp \in Responses :
        Called("register_user_with_error_handling", resp,
               register_user_with_error_handling(resp))

CastVote == \E resp \in Responses : Called("cast_vote", resp, cast_vote(resp))

CastVoteWithErrorHandling ==
    \E resp \in Responses :
        Called("cast_vote_with_error_handling", resp, cast_vote_with_error_handling(resp))

GetPollResults ==
    \E resp \in Responses : Called("get_poll_results", resp, get_poll_results(resp))

GetPollResultsWithErrorHandling ==
    \E resp \in Responses :
        Called("get_poll_results_with_error_handling", resp,
               get_poll_results_with_error_handling(resp))

GetVoteToken == \E resp \in Responses : Called("get_vote_token", resp, get_vote_token(resp))

VoteCounts == {Absent} \cup (0..MaxVotes)

\* vote counts that are 28.75% and 71.25% of their sum: percentages in the
\* middle of two tenths, where the one decimal printed (28.7 and 71.2) is
\* as far from the percentage as it gets
HalfwayVotes == {23, 57}

\* the results lists of n options with counts of a set: option ids are the
\* positions in the list
RECURSIVE ResultsListsOfSize(_, _)
ResultsListsOfSize(n, counts) ==
    IF n = 0 THEN {<<>>}
    ELSE {Append(results_data, Option(n, count)) :
             results_data \in ResultsListsOfSize(n - 1, counts), count \in counts}

\* the results lists tried: small counts, absent ones included, and large
\* counts that make halfway percentages
ResultsLists ==
    UNION {ResultsListsOfSize(n, VoteCounts) \cup ResultsListsOfSize(n, HalfwayVotes) :
              n \in 0..MaxOptions}

PrintPollResults ==
    /\ pc # "loop"
    /\ \E has_results \in BOOLEAN, results_data \in ResultsLists :
          /\ ~has_results => results_data = <<>>
          /\ report' = print_poll_results(has_results, results_data)
    /\ call' = NoCall
    /\ NoLoop

Next ==
    \/ StartFetchAll
    \/ FetchStep
    \/ FetchPolls
    \/ FetchPollsWithErrorHandling
    \/ RegisterUser
    \/ RegisterUserWithErrorHandling
    \/ CastVote
    \/ CastVoteWithErrorHandling
    \/ GetPollResults
    \/ GetPollResultsWithErrorHandling
    \/ GetVoteToken
    \/ PrintPollResults

Spec == Init /\ [][Next]_vars

\* ================================================================ properties
RECURSIVE Concat(_)
Concat(seqs) == IF seqs = <<>> THEN <<>> ELSE Head(seqs) \o Concat(Tail(seqs))

\* fetch_all_polls has returned after talking to a well-behaved server
ReturnedFromPaged == pc = "done" /\ server = "paged"

\* C1: against a well-behaved server that never fails, fetch_all_polls returns
\* exactly the M polls of the dataset, each once, in the server's order.
C1_ReturnsWholeDataset == ReturnedFromPaged => all_polls = dataset

\* several pages were needed and the order of the polls is visible
C1_Witness ==
    /\ ReturnedFromPaged
    /\ batch_size > 1
    /\ Len(dataset) > batch_size
    /\ Len(requests) = 2
    /\ Len(pages[2]) > 0
    /\ dataset[1] # dataset[2]
    /\ all_polls = dataset

CeilDiv(m, n) == (m + n - 1) \div n

\* C2 as stated: fetch_all_polls issues exactly ceil(M/N) calls to fetch_polls,
\* also when M is 0 or an exact multiple of N.
C2_CeilCalls ==
    ReturnedFromPaged => Len(requests) = CeilDiv(Len(dataset), batch_size)

\* C2 amended: fetch_all_polls issues exactly floor(M/N) + 1 calls, that is
\* ceil(M/N) when N does not divide M and one more call, answered by an empty
\* page, when M is 0 or an exact multiple of N.
C2_FloorPlusOneCalls ==
    ReturnedFromPaged =>
        /\ Len(requests) = (Len(dataset) \div batch_size) + 1
        /\ Len(dataset) % batch_size # 0 =>
               Len(requests) = CeilDiv(Len(dataset), batch_size)
        /\ Len(dataset) % batch_size = 0 =>
               /\ Len(requests) = CeilDiv(Len(dataset), batch_size) + 1
               /\ pages[Len(pages)] = <<>>

\* a non-empty dataset that is an exact multiple of the page size
C2_Witness ==
    /\ ReturnedFromPaged
    /\ batch_size > 1
    /\ Len(dataset) = 2 * batch_size
    /\ Len(requests) = 3

\* C3: fetch_all_polls always terminates and never loops unboundedly, even
\* against a collaborator that returns a full page for every request: the
\* call does not go on for as long as the server has full pages to give, it
\* has left its loop before MaxFullPages requests were all answered with one.
C3_Terminates == pc = "loop" => Len(requests) < MaxFullPages

\* the latest fetch_polls call of the loop raised
FetchFailed == pc \in {"loop", "done"} /\ last.type = "raise"

\* C4: if the k-th fetch_polls call raises, fetch_all_polls leaves the loop
\* without another request and returns the concatenation, in order, of the
\* k-1 pages fetched before (the empty list when k = 1).
C4_PartialResult ==
    FetchFailed =>
        /\ pc = "done"
        /\ Len(pages) = Len(requests) - 1
        /\ all_polls = Concat(pages)

\* the third call failed after two pages were accumulated
C4_Witness ==
    /\ FetchFailed
    /\ Len(requests) = 3
    /\ batch_size > 1
    /\ Len(all_polls) >= 2 * batch_size

\* the status codes a wrapper treats on their own
SpecificCodes(fn) ==
    CASE fn = "register_user" -> {400}
      [] fn = "cast_vote" -> {401, 404}
      [] fn = "get_poll_results" -> {404}
      [] OTHER -> {}

Wrappers == {"register_user", "cast_vote", "get_poll_results", "get_vote_token", "fetch_polls"}

\* C5: for each of the five wrappers and every status that is neither 200 nor
\* one of its specific failure codes, the call raises the generic transport
\* error and never returns a value.
C5_OtherStatusRaises ==
    (/\ call.fn \in Wrappers
     /\ call.resp.kind = "http"
     /\ call.resp.status \notin ({200} \cup SpecificCodes(call.fn)))
    => (call.out.type = "raise" /\ call.out.exc = "RequestException")

DefaultMessage(fn, status) ==
    CASE fn = "register_user" -> "Registration failed: Username already registered"
      [] fn = "cast_vote" /\ status = 401 -> "Unauthorized: Invalid or missing JWT token"
      [] fn = "cast_vote" -> "Poll or option not found"
      [] OTHER -> "Poll not found"

MessagePrefixes == {"", "Registration failed: ", "Unauthorized: ", "Vote failed: "}

CarriesDetail(msg, detail) == \E prefix \in MessagePrefixes : msg = prefix \o detail

\* the latest call got one of the specific failure codes of its function
SpecificFailure ==
    /\ call.fn \in {"register_user", "cast_vote", "get_poll_results"}
    /\ call.resp.kind = "http"
    /\ call.resp.status \in SpecificCodes(call.fn)

HasDetail(body) == body.json = "dict" /\ body.detail # NoDetail

\* C6: on every specific failure code the message of the raised error carries
\* the detail of the response body when it has one and is the default
\* message only when it has none.
C6_MessageCarriesDetail ==
    SpecificFailure =>
        /\ call.out.type = "raise"
        /\ HasDetail(call.resp.body) => CarriesDetail(call.out.msg, call.resp.body.detail)
        /\ call.resp.body.json \in {"dict", "invalid"} /\ ~HasDetail(call.resp.body) =>
               call.out.msg = DefaultMessage(call.fn, call.resp.status)

\* C7: a specific failure code always reaches the caller of the raising
\* variant as the domain error (ValueError), on 401 of cast_vote with the
\* message "Unauthorized: Invalid or missing JWT token", never re-wrapped as
\* the "Request failed" transport error.
C7_DomainErrorPropagates ==
    SpecificFailure =>
        /\ call.out.type = "raise"
        /\ call.out.exc = "ValueError"
        /\ (call.fn = "cast_vote" /\ call.resp.status = 401) =>
               call.out.msg = "Unauthorized: Invalid or missing JWT token"

\* what the raising variant wrapped by fn does on resp
Wrapped(fn, resp) ==
    CASE fn = "register_user_with_error_handling" -> register_user(resp)
      [] fn = "cast_vote_with_error_handling" -> cast_vote(resp)
      [] fn = "get_poll_results_with_error_handling" -> get_poll_results(resp)
      [] OTHER -> fetch_polls(resp)

Variants ==
    {"register_user_with_error_handling", "cast_vote_with_error_handling",
     "get_poll_results_with_error_handling", "fetch_polls_with_error_handling"}

\* C8: a "with error handling" variant never propagates an error: it returns
\* None whenever the wrapped function raises and the wrapped function's
\* value whenever that one returns.
C8_VariantNeverRaises ==
    call.fn \in Variants =>
        /\ call.out.type = "return"
        /\ Wrapped(call.fn, call.resp).type = "raise" => call.out.value = None
        /\ Wrapped(call.fn, call.resp).type = "return" =>
               call.out = Wrapped(call.fn, call.resp)

Printed == report.status = "printed"

\* C9: print_poll_results lists the options in descending order of
\* vote_count, options with equal vote_count in their input order, and the
\* ranking is a permutation of the input options.
C9_StableDescendingRanking ==
    Printed =>
        LET input == report.results_data
            ranked == report.sorted_results
        IN  /\ Len(ranked) = Len(input)
            /\ Len(report.lines) = Len(input)
            /\ {ranked[i].option_id : i \in 1..Len(ranked)} = 1..Len(input)
            /\ \A i \in 1..Len(ranked) :
                   /\ ranked[i] = input[ranked[i].option_id]
                   /\ report.lines[i].rank = i
                   /\ report.lines[i].option_id = ranked[i].option_id
            /\ \A i, j \in 1..Len(ranked) :
                   i < j =>
                     /\ vote_count_of(ranked[i]) >= vote_count_of(ranked[j])
                     /\ vote_count_of(ranked[i]) = vote_count_of(ranked[j]) =>
                            ranked[i].option_id < ranked[j].option_id

\* the input is not in ranking order and two of its options tie
C9_Witness ==
    /\ Printed
    /\ Len(report.results_data) = 3
    /\ vote_count_of(report.results_data[1]) = 1
    /\ vote_count_of(report.results_data[2]) = 2
    /\ vote_count_of(report.results_data[3]) = 1
    /\ report.sorted_results[2].option_id = 1
    /\ report.sorted_results[3].option_id = 3

RECURSIVE SumTenths(_)
SumTenths(lines) == IF lines = <<>> THEN 0 ELSE Head(lines).tenths + SumTenths(Tail(lines))

RECURSIVE SumCounts(_)
SumCounts(lines) == IF lines = <<>> THEN 0 ELSE Head(lines).vote_count + SumCounts(Tail(lines))

Abs(x) == IF x < 0 THEN -x ELSE x

Max(a, b) == IF a > b THEN a ELSE b

\* the largest exponent of the errors of the percentages of a report
RECURSIVE MaxExp(_)
MaxExp(lines) == IF lines = <<>> THEN 0 ELSE Max(Head(lines).error.exp, MaxExp(Tail(lines)))

\* the sum of the errors of the percentages, in units of
\* 1 / (total_votes * 2^(52 + exp))
RECURSIVE SumErrors(_, _)
SumErrors(lines, exp) ==
    IF lines = <<>> THEN 0
    ELSE Head(lines).error.num * (2 ^ (exp - Head(lines).error.exp))
         + SumErrors(Tail(lines), exp)

\* C10 as stated: when the total is greater than 0 the percentages of the
\* options sum to 100.  The percentages are the doubles the code computes,
\* each 100 * vote_count / total_votes plus its error: their sum is 100 when
\* the counts add up to the total and the errors add up to nothing.
C10_PercentagesSumTo100 ==
    (Printed /\ report.total_votes > 0) =>
        /\ 100 * SumCounts(report.lines) = 100 * report.total_votes
        /\ SumErrors(report.lines, MaxExp(report.lines)) = 0

\* C10 amended: the total is the sum of all vote_counts; when it is greater
\* than 0 the percentages sum to 100 within rounding: every double is within
\* 114 / 2^(52 + exp) of the exact percentage (50 for the half unit of the
\* division, times 100, and 64 for the half unit of the product), so that
\* the doubles sum to 100 within 2^-45 per option, and the values printed,
\* one decimal each, sum to 100 within 0.05 per option; when the total is 0
\* every percentage is 0.
C10_PercentagesWithinRounding ==
    Printed =>
        /\ report.total_votes = SumCounts(report.lines)
        /\ report.total_votes > 0 =>
               /\ \A i \in 1..Len(report.lines) :
                      Abs(report.lines[i].error.num) <= 114 * report.total_votes
               /\ Abs(SumErrors(report.lines, MaxExp(report.lines)))
                      <= Len(report.lines) * 114 * report.total_votes
                             * (2 ^ MaxExp(report.lines))
               /\ 2 * Abs(SumTenths(report.lines) - 1000) <= Len(report.lines)
        /\ report.total_votes = 0 =>
               \A i \in 1..Len(report.lines) :
                   /\ report.lines[i].error.num = 0
                   /\ report.lines[i].tenths = 0

\* 57 and 23 votes of 80, 71.25% and 28.75%: the doubles are 71.25 and
\* 28.749999999999996 and are printed as 71.2% and 28.7%, 0.05 too little for
\* each option
C10_Witness ==
    /\ Printed
    /\ report.total_votes = 80
    /\ Len(report.lines) = 2
    /\ report.lines[1].vote_count = 57 /\ report.lines[1].tenths = 712
    /\ report.lines[2].vote_count = 23 /\ report.lines[2].tenths = 287
    /\ 2 * Abs(SumTenths(report.lines) - 1000) = Len(report.lines)

\* a page that lets the loop go on: not empty and at least batch_size items
FullPage(page) == Len(page) > 0 /\ Len(page) >= batch_size

InFetchAll == pc \in {"loop", "done"}

\* the requests made so far and the pages they were answered with
C11_Order ==
    InFetchAll =>
        /\ Len(pages) \in {Len(requests), Len(requests) - 1}
        /\ requests # <<>> => requests[1] = 0
        \* a request follows a full page only, with skip advanced by batch_size
        /\ \A i \in 2..Len(requests) :
               /\ requests[i] = requests[i - 1] + batch_size
               /\ FullPage(pages[i - 1])
        \* a full page is followed: by the next request, or the call is still
        \* in its loop with skip advanced, about to make it; the call has not
        \* returned on it
        /\ \A i \in 1..Len(pages) :
               FullPage(pages[i]) =>
                   \/ i < Len(requests)
                   \/ pc = "loop" /\ skip = requests[i] + batch_size
        \* a page that is empty or short is the last one and ends the call
        /\ \A i \in 1..Len(pages) :
               ~FullPage(pages[i]) => (i = Len(requests) /\ pc = "done")
        /\ (pc = "done" /\ requests # <<>> /\ Len(pages) = Len(requests)) =>
               ~FullPage(pages[Len(pages)])
        /\ (pc = "loop" /\ requests # <<>>) =>
               /\ Len(pages) = Len(requests)
               /\ FullPage(pages[Len(pages)])
               /\ skip = requests[Len(requests)] + batch_size
        /\ (pc = "loop" /\ requests = <<>>) => skip = 0
        /\ (pc = "done" /\ Len(pages) = 1 /\ ~FullPage(pages[1])) =>
               (Len(requests) = 1 /\ all_polls = pages[1])

\* a step of the call in progress that issues a request issues it with the
\* current skip, and no step issues one once the call has returned
C11_Step ==
    /\ (pc = "loop" /\ pc' \in {"loop", "done"} /\ requests' # requests) =>
           requests' = Append(requests, skip)
    /\ (pc = "done" /\ pc' = "done") => requests' = requests

\* C11: the requests of fetch_all_polls follow a fixed order: the first has
\* skip = 0, a request with skip advanced by exactly batch_size follows a
\* page if and only if that page was non-empty and held at least batch_size
\* items, and no request follows the first page that is empty or short; a
\* short first page is returned as it is after a single request.
C11_RequestOrder == []C11_Order /\ [][C11_Step]_vars

\* a 10-item page followed by a 3-item page with batch_size 10: requests
\* skip=0 and skip=10, 13 items
C11_Witness ==
    /\ pc = "done"
    /\ batch_size = 10
    /\ requests = <<0, 10>>
    /\ Len(pages) = 2
    /\ Len(pages[1]) = 10
    /\ Len(pages[2]) = 3
    /\ Len(all_polls) = 13

====
